---- MODULE Spec2Model ----
(***************************************************************************)
(* Model of twisted/python/dist.py: the conditional C extensions and their *)
(* build conditions, the console script table, the setup arguments and the *)
(* build_py command that installs only the modules ported to Python 3.     *)
(***************************************************************************)
EXTENDS Naturals, Sequences, FiniteSets

VARIABLES
    python_implementation,  \* what platform.python_implementation() reports
    sys_platform,           \* sys.platform
    version_major,          \* sys.version_info[0]
    toolchain,              \* the compiler and the headers on its search path
    _isCPython,             \* module global, dist.py line 259
    conditionalExtensions,  \* the descriptors handed to the extension builder
    pc,                     \* position of the extension builder
    idx,                    \* next descriptor whose condition is evaluated
    kept,                   \* descriptors kept so far by the running selection
    extensions,             \* the builder's extension list, once assigned
    asked,                  \* every capability query made, with its answer
    results,                \* the value each evaluated condition returned
    probe0,                 \* the environment when the invocation started
    envChanges,             \* how often the environment changed since then
    changedAt,              \* the positions (idx) at which it changed
    discovered,             \* modules found by the package scan
    modulesToInstall,       \* twisted.python._python3_port.modulesToInstall
    testDataFiles,          \* twisted.python._python3_port.testDataFiles
    arguments,              \* the dict returned by get_setup_args
    installed,              \* modules build_py installs
    bpc                     \* position of the setup / build_py run

envVars == <<python_implementation, sys_platform, version_major, toolchain>>
extVars == <<_isCPython, conditionalExtensions, pc, idx, kept, extensions,
             asked, results, probe0>>
changeVars == <<envChanges, changedAt>>
buildVars == <<discovered, modulesToInstall, testDataFiles, arguments,
               installed, bpc>>
vars == <<envVars, extVars, changeVars, buildVars>>

-----------------------------------------------------------------------------
(* Bounds of the model *)

\* longest descriptor sequence handed to the extension builder
MaxDescs == 4

\* longest sequence of discovered modules
MaxModules == 3

\* most changes of the environment during one invocation
MaxEnvChanges == 2

-----------------------------------------------------------------------------
(* The environment *)

Implementations == {"CPython", "PyPy"}

Platforms == {"win32", "linux2", "darwin"}

Majors == {2, 3}

HeaderNames == {"rpc/rpc.h", "sys/event.h"}

CompilerStates == {"ok", "absent", "fault"}

Toolchains == [compiler : CompilerStates, headers : SUBSET HeaderNames]

\* from twisted.python.compat import _PY3
_PY3 == version_major >= 3

\* variant: only a known alternative implementation counts as "not CPython"
_checkCPythonLenient == python_implementation # "Jython"

\* _checkCPython: platform.python_implementation() == "CPython"
_checkCPython == python_implementation = "CPython"

-----------------------------------------------------------------------------
(* Capability queries and condition outcomes *)

Bool(b) == IF b THEN "True" ELSE "False"

Query(q, arg, answer) == [q |-> q, arg |-> arg, answer |-> answer]

Ret(v, qs) == [value |-> v, raised |-> FALSE, asked |-> qs]

Raise(qs) == [value |-> FALSE, raised |-> TRUE, asked |-> qs]

\* builder._check_header(header_name): test-compiles "#include <header_name>";
\* a failed compilation (header missing, no compiler) answers False, any
\* other failure is raised to the caller.
_check_header(builder, header_name) ==
    CASE builder.compiler = "fault" -> "raise"
      [] builder.compiler = "absent" -> "False"
      [] OTHER -> Bool(header_name \in builder.headers)

qCPython == Query("isReferenceInterpreter", "", Bool(_isCPython))

qPlatform == Query("platformName", "", sys_platform)

qHeader(builder, name) ==
    Query("headerAvailable", name, _check_header(builder, name))

-----------------------------------------------------------------------------
(* The conditions of getExtensions, with Python's short-circuit "and" *)

\* lambda builder: True
defaultCondition(builder) == Ret(TRUE, <<>>)

\* lambda _: _isCPython
raiserCondition(builder) == Ret(_isCPython, <<qCPython>>)

\* variant: "or" written for "and"
iocpsupportConditionOr(builder) ==
    IF _isCPython
    THEN Ret(TRUE, <<qCPython>>)
    ELSE Ret(sys_platform = "win32", <<qCPython, qPlatform>>)

\* lambda _: _isCPython and sys.platform == "win32"
iocpsupportCondition(builder) ==
    IF ~_isCPython
    THEN Ret(FALSE, <<qCPython>>)
    ELSE Ret(sys_platform = "win32", <<qCPython, qPlatform>>)

\* variant: "==" written for "!="
sendmsgConditionFlipped(builder) ==
    IF _PY3
    THEN Ret(FALSE, <<>>)
    ELSE Ret(sys_platform = "win32", <<qPlatform>>)

\* lambda _: not _PY3 and sys.platform != "win32"
sendmsgCondition(builder) ==
    IF _PY3
    THEN Ret(FALSE, <<>>)
    ELSE Ret(sys_platform # "win32", <<qPlatform>>)

\* variant: "or" written for "and"
portmapConditionOr(builder) ==
    IF ~_PY3
    THEN Ret(TRUE, <<>>)
    ELSE LET h == qHeader(builder, "rpc/rpc.h")
         IN  IF h.answer = "raise"
             THEN Raise(<<h>>)
             ELSE Ret(h.answer = "True", <<h>>)

\* variant: the header check guarded by try/except, a failure read as False
portmapConditionCatching(builder) ==
    IF _PY3
    THEN Ret(FALSE, <<>>)
    ELSE LET h == qHeader(builder, "rpc/rpc.h")
         IN  Ret(h.answer = "True", <<h>>)

\* variant: the operands of "and" swapped
portmapConditionSwapped(builder) ==
    LET h == qHeader(builder, "rpc/rpc.h")
    IN  IF h.answer = "raise"
        THEN Raise(<<h>>)
        ELSE IF h.answer = "False"
             THEN Ret(FALSE, <<h>>)
             ELSE Ret(~_PY3, <<h>>)

\* lambda builder: not _PY3 and builder._check_header("rpc/rpc.h")
portmapCondition(builder) ==
    IF _PY3
    THEN Ret(FALSE, <<>>)
    ELSE LET h == qHeader(builder, "rpc/rpc.h")
         IN  IF h.answer = "raise"
             THEN Raise(<<h>>)
             ELSE Ret(h.answer = "True", <<h>>)

\* x.condition(builder)
condition(x, builder) ==
    CASE x.condition = "raiser" -> raiserCondition(builder)
      [] x.condition = "iocpsupport" -> iocpsupportCondition(builder)
      [] x.condition = "_sendmsg" -> sendmsgCondition(builder)
      [] x.condition = "portmap" -> portmapCondition(builder)
      [] OTHER -> defaultCondition(builder)

ConditionalExtension(name, sources, libraries, cond) ==
    [name |-> name, sources |-> sources, libraries |-> libraries,
     condition |-> cond]

\* variant: the condition of twisted.runner.portmap pasted onto _sendmsg too
getExtensionsPastedCondition ==
    << ConditionalExtension("twisted.test.raiser",
                            <<"twisted/test/raiser.c">>, <<>>, "raiser"),
       ConditionalExtension("twisted.internet.iocpreactor.iocpsupport",
           <<"twisted/internet/iocpreactor/iocpsupport/iocpsupport.c",
             "twisted/internet/iocpreactor/iocpsupport/winsock_pointers.c">>,
           <<"ws2_32">>, "iocpsupport"),
       ConditionalExtension("twisted.python._sendmsg",
                            <<"twisted/python/_sendmsg.c">>, <<>>, "portmap"),
       ConditionalExtension("twisted.runner.portmap",
                            <<"twisted/runner/portmap.c">>, <<>>, "portmap") >>

getExtensions ==
    << ConditionalExtension("twisted.test.raiser",
                            <<"twisted/test/raiser.c">>, <<>>, "raiser"),
       ConditionalExtension("twisted.internet.iocpreactor.iocpsupport",
           <<"twisted/internet/iocpreactor/iocpsupport/iocpsupport.c",
             "twisted/internet/iocpreactor/iocpsupport/winsock_pointers.c">>,
           <<"ws2_32">>, "iocpsupport"),
       ConditionalExtension("twisted.python._sendmsg",
                            <<"twisted/python/_sendmsg.c">>, <<>>, "_sendmsg"),
       ConditionalExtension("twisted.runner.portmap",
                            <<"twisted/runner/portmap.c">>, <<>>, "portmap") >>

\* an extension declared without a condition keyword
plainExtension ==
    ConditionalExtension("twisted.plain", <<"twisted/plain.c">>, <<>>,
                         "default")

Range(s) == {s[i] : i \in 1..Len(s)}

DescriptorPool == Range(getExtensions) \cup {plainExtension}

\* descriptor sequences with pairwise distinct names
DescriptorSeqs ==
    {s \in UNION {[1..n -> DescriptorPool] : n \in 0..MaxDescs} :
        \A i, j \in 1..Len(s) : i # j => s[i].name # s[j].name}

-----------------------------------------------------------------------------
(* The extension builder: extensions = [x for x in conditionalExtensions  *)
(* if x.condition(self)], one condition per step.                          *)

Unassigned == [assigned |-> FALSE, list |-> <<>>]

Assigned(l) == [assigned |-> TRUE, list |-> l]

Environment ==
    [python_implementation |-> python_implementation,
     sys_platform |-> sys_platform,
     toolchain |-> toolchain]

BuildIdle ==
    /\ discovered = <<>>
    /\ modulesToInstall = {}
    /\ testDataFiles = {}
    /\ arguments = <<>>
    /\ installed = <<>>
    /\ bpc = "idle"

InitEnv ==
    /\ python_implementation \in Implementations
    /\ sys_platform \in Platforms
    /\ version_major \in Majors
    /\ toolchain \in Toolchains

InitBuilder ==
    /\ _isCPython = _checkCPython
    /\ pc = "ready"
    /\ idx = 1
    /\ kept = <<>>
    /\ extensions = Unassigned
    /\ asked = <<>>
    /\ results = <<>>
    /\ probe0 = Environment
    /\ envChanges = 0
    /\ changedAt = {}

Init ==
    /\ InitEnv
    /\ conditionalExtensions \in DescriptorSeqs
    /\ InitBuilder
    /\ BuildIdle

prepare_extensions ==
    /\ pc = "ready"
    /\ pc' = "selecting"
    /\ UNCHANGED <<envVars, _isCPython, conditionalExtensions, idx, kept,
                   extensions, asked, results, probe0, changeVars, buildVars>>

evaluate_condition ==
    /\ pc = "selecting"
    /\ idx <= Len(conditionalExtensions)
    /\ LET x == conditionalExtensions[idx]
           r == condition(x, toolchain)
       IN  /\ asked' = asked \o r.asked
           /\ IF r.raised
              THEN /\ pc' = "aborted"
                   /\ UNCHANGED <<idx, kept, results>>
              ELSE /\ pc' = pc
                   /\ idx' = idx + 1
                   /\ kept' = IF r.value THEN Append(kept, x) ELSE kept
                   /\ results' = Append(results, r.value)
    /\ UNCHANGED <<envVars, _isCPython, conditionalExtensions, extensions,
                   probe0, changeVars, buildVars>>

assign_extensions ==
    /\ pc = "selecting"
    /\ idx > Len(conditionalExtensions)
    /\ extensions' = Assigned(kept)
    /\ pc' = "done"
    /\ UNCHANGED <<envVars, _isCPython, conditionalExtensions, idx, kept,
                   asked, results, probe0, changeVars, buildVars>>

Next ==
    \/ prepare_extensions
    \/ evaluate_condition
    \/ assign_extensions

Spec == Init /\ [][Next]_vars

-----------------------------------------------------------------------------
(* The same run while the toolchain changes under it (a compiler or a      *)
(* header is installed or removed while the builder works); the            *)
(* descriptors are the ones get_setup_args passes.  sys.platform and the   *)
(* interpreter are fixed for the life of the process.                      *)

InitChanging ==
    /\ InitEnv
    /\ conditionalExtensions = getExtensions
    /\ InitBuilder
    /\ BuildIdle

toolchain_changes ==
    /\ pc \in {"ready", "selecting"}
    /\ envChanges < MaxEnvChanges
    /\ \E v \in Toolchains \ {toolchain} : toolchain' = v
    /\ envChanges' = envChanges + 1
    /\ changedAt' = changedAt \cup {idx}
    /\ UNCHANGED <<python_implementation, sys_platform, version_major,
                   extVars, buildVars>>

NextChanging ==
    \/ prepare_extensions
    \/ evaluate_condition
    \/ assign_extensions
    \/ toolchain_changes

SpecChanging == InitChanging /\ [][NextChanging]_vars

-----------------------------------------------------------------------------
(* Console scripts, setup arguments and the build_py command *)

scripts ==
    << "cftp = twisted.conch.scripts.cftp:run",
       "ckeygen = twisted.conch.scripts.ckeygen:run",
       "conch = twisted.conch.scripts.conch:run",
       "mailmail = twisted.mail.scripts.mailmail:run",
       "pyhtmlizer = twisted.scripts.htmlizer:run",
       "tkconch = twisted.conch.scripts.tkconch:run" >>

portedToPython3Scripts ==
    << "trial = twisted.scripts.trial:run",
       "twistd = twisted.scripts.twistd:run" >>

\* variant: the two lists concatenated the other way round
getConsoleScriptsPortedFirst ==
    IF _PY3 THEN portedToPython3Scripts ELSE portedToPython3Scripts \o scripts

getConsoleScripts ==
    IF _PY3 THEN portedToPython3Scripts ELSE scripts \o portedToPython3Scripts

NoCommands == [c \in {} |-> ""]

\* variant: the build_py command installed whatever the version
get_setup_args_always_picky ==
    [install_requires |->
        IF version_major >= 3 THEN <<"zope.interface >= 4.0.2">>
                              ELSE <<"zope.interface >= 3.6.0">>,
     conditionalExtensions |-> getExtensions,
     console_scripts |-> getConsoleScripts,
     cmdclass |-> [c \in {"build_py"} |-> "PickyBuildPy"]]

\* the arguments that depend on the interpreter; the static metadata, the
\* package list and extras_require are the same in every run
get_setup_args ==
    [install_requires |->
        IF version_major >= 3 THEN <<"zope.interface >= 4.0.2">>
                              ELSE <<"zope.interface >= 3.6.0">>,
     conditionalExtensions |-> getExtensions,
     console_scripts |-> getConsoleScripts,
     cmdclass |->
        IF version_major >= 3 THEN [c \in {"build_py"} |-> "PickyBuildPy"]
                              ELSE NoCommands]

\* A name is the sequence of its dot-separated parts: "twisted.python" is
\* <<"twisted", "python">>.  ".".join([a, b]) puts one dot between a and b.
DotJoin(a, b) == a \o b

\* a discovered module: (package, module, file)
Module(package, module) ==
    <<package, <<module>>, package \o <<module, "py">> >>

DiscoverablePool ==
    { Module(<<"twisted">>, "copyright"),
      Module(<<"twisted", "python">>, "dist"),
      Module(<<"twisted", "python">>, "compat"),
      Module(<<"twisted", "python", "test">>, "pullpipe") }

PortedNames ==
    { <<"twisted", "copyright">>,
      <<"twisted", "python", "dist">>,
      <<"twisted", "python">> }

TestDataNames ==
    { <<"twisted", "python", "test", "pullpipe">>,
      <<"twisted", "python", "dist">> }

\* scans list every module once
DiscoveredSeqs ==
    {s \in UNION {[1..n -> DiscoverablePool] : n \in 0..MaxModules} :
        \A i, j \in 1..Len(s) : i # j => s[i] # s[j]}

\* variant: the test data files forgotten
isListedPortedOnly(module) ==
    DotJoin(module[1], module[2]) \in modulesToInstall

\* the test of the list comprehension in find_package_modules
isListed(module) ==
    \/ DotJoin(module[1], module[2]) \in modulesToInstall
    \/ DotJoin(module[1], module[2]) \in testDataFiles

RECURSIVE find_package_modules(_)
\* PickyBuildPy.find_package_modules, applied to what build_py found
find_package_modules(found) ==
    IF found = <<>>
    THEN <<>>
    ELSE IF isListed(Head(found))
         THEN <<Head(found)>> \o find_package_modules(Tail(found))
         ELSE find_package_modules(Tail(found))

ExtIdle ==
    /\ _isCPython = _checkCPython
    /\ conditionalExtensions = <<>>
    /\ pc = "idle"
    /\ idx = 1
    /\ kept = <<>>
    /\ extensions = Unassigned
    /\ asked = <<>>
    /\ results = <<>>
    /\ probe0 = Environment
    /\ envChanges = 0
    /\ changedAt = {}

InitBuild ==
    /\ python_implementation \in Implementations
    /\ sys_platform = "linux2"
    /\ version_major \in Majors
    /\ toolchain = [compiler |-> "ok", headers |-> {}]
    /\ ExtIdle
    /\ discovered \in DiscoveredSeqs
    /\ modulesToInstall \in SUBSET PortedNames
    /\ testDataFiles \in SUBSET TestDataNames
    /\ arguments = <<>>
    /\ installed = <<>>
    /\ bpc = "start"

\* setup(): arguments = get_setup_args()
setup ==
    /\ bpc = "start"
    /\ arguments' = get_setup_args
    /\ bpc' = "configured"
    /\ UNCHANGED <<envVars, extVars, changeVars, discovered, modulesToInstall,
                   testDataFiles, installed>>

\* the build_py command of the distribution: the class cmdclass names, or
\* the stock command, which installs every module found
run_build_py ==
    /\ bpc = "configured"
    /\ installed' = IF "build_py" \in DOMAIN arguments.cmdclass
                    THEN find_package_modules(discovered)
                    ELSE discovered
    /\ bpc' = "built"
    /\ UNCHANGED <<envVars, extVars, changeVars, discovered, modulesToInstall,
                   testDataFiles, arguments>>

NextBuild ==
    \/ setup
    \/ run_build_py

SpecBuild == InitBuild /\ [][NextBuild]_vars

-----------------------------------------------------------------------------
(* Properties of the extension selection *)

raiserName == "twisted.test.raiser"

iocpsupportName == "twisted.internet.iocpreactor.iocpsupport"

sendmsgName == "twisted.python._sendmsg"

portmapName == "twisted.runner.portmap"

\* what each declared predicate requires of a probe P, read off its text
RequiresWin32 == {iocpsupportName}

RequiresCPython == {raiserName, iocpsupportName}

PredicateTrue(name, P) ==
    CASE name = raiserName -> P.python_implementation = "CPython"
      [] name = iocpsupportName ->
            P.python_implementation = "CPython" /\ P.sys_platform = "win32"
      [] name = sendmsgName ->
            version_major < 3 /\ P.sys_platform # "win32"
      [] name = portmapName ->
            /\ version_major < 3
            /\ P.toolchain.compiler = "ok"
            /\ "rpc/rpc.h" \in P.toolchain.headers
      [] OTHER -> TRUE

\* the subsequence of s at the positions K, in increasing order
SelectAt(s, K) ==
    [i \in 1..Cardinality(K) |->
        s[CHOOSE j \in K : Cardinality({k \in K : k <= j}) = i]]

Names(s) == {s[i].name : i \in 1..Len(s)}

HeaderQueries == {i \in 1..Len(asked) : asked[i].q = "headerAvailable"}

\* C1: once the selection has completed, the extension list is the
\* subsequence of the descriptor sequence made of exactly the descriptors
\* whose predicate is true under the probe, in declaration order.
C1_SelectionIsOrderedSubsequence ==
    pc = "done" =>
        /\ extensions.assigned
        /\ extensions.list =
              SelectAt(conditionalExtensions,
                       {j \in 1..Len(conditionalExtensions) :
                           PredicateTrue(conditionalExtensions[j].name,
                                         Environment)})

\* a completed selection that kept the first and third of at least three
\* descriptors and dropped the second
C1_Witness ==
    /\ pc = "done"
    /\ Len(conditionalExtensions) >= 3
    /\ Len(extensions.list) = 2
    /\ extensions.list[1] = conditionalExtensions[1]
    /\ extensions.list[2] = conditionalExtensions[3]

\* C5: on a probe whose platform is not win32, no descriptor whose predicate
\* requires win32 is kept or selected, whatever the other answers are; and
\* selecting from [A (no condition), B (requires win32)] yields [A].
C5_NoWin32ExtensionOffWindows ==
    sys_platform # "win32" =>
        /\ Names(kept) \cap RequiresWin32 = {}
        /\ Names(extensions.list) \cap RequiresWin32 = {}
        /\ (pc = "done" /\ Len(conditionalExtensions) = 2
              /\ conditionalExtensions[1] = plainExtension
              /\ conditionalExtensions[2].name = iocpsupportName)
           => extensions.list = <<plainExtension>>

\* the scenario [A, B] selected on a non-Windows CPython
C5_Witness ==
    /\ sys_platform = "linux2"
    /\ python_implementation = "CPython"
    /\ pc = "done"
    /\ Len(conditionalExtensions) = 2
    /\ conditionalExtensions[1] = plainExtension
    /\ conditionalExtensions[2].name = iocpsupportName
    /\ Len(results) = 2

\* C6: on a probe that reports another interpreter than CPython, no
\* descriptor whose predicate requires CPython is kept or selected, on every
\* platform and for both generations.
C6_NoCPythonExtensionElsewhere ==
    python_implementation # "CPython" =>
        /\ Names(kept) \cap RequiresCPython = {}
        /\ Names(extensions.list) \cap RequiresCPython = {}

\* a completed selection on PyPy on win32 whose descriptors included both
\* CPython-only extensions
C6_Witness ==
    /\ python_implementation = "PyPy"
    /\ sys_platform = "win32"
    /\ pc = "done"
    /\ RequiresCPython \subseteq Names(conditionalExtensions)

\* C7: with no compiler the header check answers False for every header and
\* raises nothing: the selection is never aborted, every header answer
\* given is False and twisted.runner.portmap is not selected.
C7_NoCompilerMeansNoHeader ==
    toolchain.compiler = "absent" =>
        /\ \A n \in HeaderNames : _check_header(toolchain, n) = "False"
        /\ \A i \in HeaderQueries : asked[i].answer = "False"
        /\ pc # "aborted"
        /\ portmapName \notin Names(kept)
        /\ portmapName \notin Names(extensions.list)

\* a completed selection on the legacy generation, without a compiler, in
\* which the header was asked for and something else was still selected
C7_Witness ==
    /\ toolchain.compiler = "absent"
    /\ "rpc/rpc.h" \in toolchain.headers
    /\ pc = "done"
    /\ HeaderQueries # {}
    /\ portmapName \in Names(conditionalExtensions)
    /\ extensions.list # <<>>

\* C8: once a capability query made by a predicate has raised, the
\* selection is aborted and no extension list is assigned, not even the
\* descriptors already kept.
C8_FaultAbortsSelection ==
    /\ (\E i \in 1..Len(asked) : asked[i].answer = "raise") =>
           (pc = "aborted" /\ ~extensions.assigned)
    /\ pc = "aborted" => (~extensions.assigned /\ extensions.list = <<>>)

\* an aborted selection that had already kept a descriptor and had more
\* descriptors left to evaluate
C8_Witness ==
    /\ pc = "aborted"
    /\ kept # <<>>
    /\ idx < Len(conditionalExtensions)
    /\ \E i \in 1..Len(asked) : asked[i].answer = "raise"

\* C10: on the current generation the header check is never called, so
\* the selection cannot be aborted and twisted.runner.portmap is not
\* selected; a header check happens only on the legacy generation.
C10_NoHeaderCheckOnCurrentGeneration ==
    /\ _PY3 =>
          /\ HeaderQueries = {}
          /\ pc # "aborted"
          /\ portmapName \notin Names(kept)
    /\ HeaderQueries # {} => ~_PY3

\* a completed selection on the current generation that evaluated
\* twisted.runner.portmap with a header check that would have raised
C10_Witness ==
    /\ _PY3
    /\ toolchain.compiler = "fault"
    /\ pc = "done"
    /\ portmapName \in Names(conditionalExtensions)

-----------------------------------------------------------------------------
(* Properties of the probe answers while the toolchain changes *)

PlatformQueries == {i \in 1..Len(asked) : asked[i].q = "platformName"}

\* every query, asked twice, was answered the same both times
SameAnswerEachTime ==
    \A i, j \in 1..Len(asked) :
        (asked[i].q = asked[j].q /\ asked[i].arg = asked[j].arg)
            => asked[i].answer = asked[j].answer

\* every evaluated predicate returned what it returns under the probe as it
\* was when the invocation started
ResultsFollowFirstProbe ==
    \A i \in 1..Len(results) :
        results[i] = PredicateTrue(conditionalExtensions[i].name, probe0)

\* C9 as stated: every capability query returns the same answer each time
\* it is asked, and a change of the environment between two predicate
\* evaluations changes no predicate's result.
C9_ProbeIsImmutable ==
    SameAnswerEachTime /\ ResultsFollowFirstProbe

\* C9 amended: every capability query returns the same answer each time it
\* is asked (the header check is made at most once), and the predicates
\* that make no header check return what they return under the first
\* probe; the header check runs when twisted.runner.portmap is evaluated
\* and answers for the toolchain as it is then.
C9_StableExceptLateHeaderCheck ==
    /\ SameAnswerEachTime
    /\ Cardinality(HeaderQueries) <= 1
    /\ \A i \in 1..Len(results) :
           conditionalExtensions[i].name # portmapName
               => results[i] = PredicateTrue(conditionalExtensions[i].name,
                                             probe0)

\* the toolchain changed once, after three predicates were evaluated and
\* before twisted.runner.portmap was; the platform was asked for twice and
\* the header check answered differently than under the first probe
C9_Witness ==
    /\ envChanges = 1
    /\ changedAt = {4}
    /\ pc = "done"
    /\ Cardinality(PlatformQueries) = 2
    /\ Cardinality(HeaderQueries) = 1
    /\ results[4] # PredicateTrue(portmapName, probe0)

-----------------------------------------------------------------------------
(* Properties of the module filter, the setup arguments and the scripts *)

AllowList == modulesToInstall \cup testDataFiles

FilterInstalled ==
    bpc \in {"configured", "built"} /\ "build_py" \in DOMAIN arguments.cmdclass

\* C2: the filter returns exactly the records whose name "package.module"
\* is in the union of the two sets, in their original order; it returns no
\* record absent from its input, and nothing when both sets are empty.
C2_FilterKeepsListedModulesInOrder ==
    (bpc = "built" /\ FilterInstalled) =>
        /\ installed =
              SelectAt(discovered,
                       {j \in 1..Len(discovered) :
                           DotJoin(discovered[j][1], discovered[j][2])
                               \in AllowList})
        /\ Range(installed) \subseteq Range(discovered)
        /\ (modulesToInstall = {} /\ testDataFiles = {}) => installed = <<>>

\* a filtered run that kept the first and third of three modules, the
\* third only because it is a test data file
C2_Witness ==
    /\ bpc = "built"
    /\ FilterInstalled
    /\ Len(discovered) = 3
    /\ installed = <<discovered[1], discovered[3]>>
    /\ DotJoin(discovered[3][1], discovered[3][2]) \notin modulesToInstall

\* C3: the arguments name the filtering build_py command if and only if
\* the interpreter is Python 3 or later; on Python 2 every discovered
\* module is installed unchanged, on Python 3 the filtered ones are.
C3_FilterOnlyOnCurrentGeneration ==
    /\ bpc \in {"configured", "built"} =>
          /\ ("build_py" \in DOMAIN arguments.cmdclass) <=> (version_major >= 3)
          /\ \A c \in DOMAIN arguments.cmdclass :
                 c = "build_py" /\ arguments.cmdclass[c] = "PickyBuildPy"
    /\ (bpc = "built" /\ version_major < 3) => installed = discovered
    /\ (bpc = "built" /\ version_major >= 3) =>
           \A i \in 1..Len(installed) :
               DotJoin(installed[i][1], installed[i][2]) \in AllowList

\* a Python 2 build that installed a module which is on neither list
C3_Witness ==
    /\ bpc = "built"
    /\ version_major = 2
    /\ installed = discovered
    /\ \E i \in 1..Len(installed) :
           DotJoin(installed[i][1], installed[i][2]) \notin AllowList

Positions(s, e) == {i \in 1..Len(s) : s[i] = e}

InPoolOrder(s, pool) ==
    \A i, j \in 1..Len(pool) :
        i < j => \A a \in Positions(s, pool[i]) :
                     \A b \in Positions(s, pool[j]) : a < b

\* C4: on Python 3 the console scripts are exactly the ported scripts; on
\* Python 2 every script of both lists appears exactly once, every
\* legacy-only script before every ported one, each list in its own order.
C4_ScriptsByGeneration ==
    bpc \in {"configured", "built"} =>
        LET cs == arguments.console_scripts
        IN  IF _PY3
            THEN /\ cs = portedToPython3Scripts
                 /\ Range(cs) \cap Range(scripts) = {}
            ELSE /\ Len(cs) = Len(scripts) + Len(portedToPython3Scripts)
                 /\ \A e \in Range(scripts) \cup Range(portedToPython3Scripts) :
                        Cardinality(Positions(cs, e)) = 1
                 /\ \A e \in Range(scripts) :
                        \A f \in Range(portedToPython3Scripts) :
                            \A a \in Positions(cs, e) :
                                \A b \in Positions(cs, f) : a < b
                 /\ InPoolOrder(cs, scripts)
                 /\ InPoolOrder(cs, portedToPython3Scripts)

\* the arguments of a Python 2 run, which list all eight scripts
C4_Witness ==
    /\ bpc = "configured"
    /\ ~_PY3
    /\ Len(arguments.console_scripts) = 8
    /\ arguments.console_scripts[1] = "cftp = twisted.conch.scripts.cftp:run"
    /\ arguments.console_scripts[8] = "twistd = twisted.scripts.twistd:run"

====
